---- MODULE Spec2Model ----
(***************************************************************************)
(* Merkle proof server: the multi-chain server (server.js, second program  *)
(* of the file), its regeneration worker (regenerationWorker.js), and the  *)
(* single-tree draft of the server (server.js, first program of the file). *)
(*                                                                         *)
(* Spec        the server with its workers; one worker step builds and     *)
(*             persists one chain.                                         *)
(* StatusSpec  the same with GET /regeneration-status, over a record       *)
(*             source that does not change.                                *)
(* StartupSpec the start of the process up to and after app.listen.        *)
(* BuildSpec   one run of the tree builders, one step per page fetch.      *)
(***************************************************************************)
EXTENDS Integers, Sequences, FiniteSets, TLC

\* ------------------------------------------------------------------ bounds
MaxRegenerations == 2      \* regeneration workers the server may start
MaxRecords == 1            \* records inserted into the record source (Spec)
MaxServedRecords == 2      \* records of the source the served trees are built over
MaxStatusRequests == 1     \* GET /regeneration-status requests
MaxBatchSize == 2          \* page sizes 1..MaxBatchSize stand for batchSize
MaxBuildRecords == 3       \* records of the record source (BuildSpec)
MaxFetchFailures == 4      \* failing page fetches injected (BuildSpec)

\* --------------------------------------------------------------- constants
CHAINS == <<"ETH", "ARB", "BASE", "POL">>

ChainSet == {CHAINS[k] : k \in 1..Len(CHAINS)}

\* worker 0 is the initial generation worker, 1.. are regeneration workers
Workers == 0..MaxRegenerations
NoWorker == -1

VARIABLES
  \* main thread of the multi-chain server
  serverPc,              \* position of startServer
  merkleTrees,           \* chain -> tree loaded in memory
  rootHashes,            \* chain -> root hash served
  merkleTreePaths,       \* keys of merkleTreePaths, in insertion order
  regenerationComplete,
  isRegenerating,
  regenerationWorker,    \* the worker /regeneration-status talks to
  loadKeys,              \* per 'complete' handler: chains loadMerkleTrees has still to load
  listeners,             \* per worker: once('message') listeners of pending status requests
  statusSent,            \* status requests received so far
  response,              \* the last HTTP response sent
  dropped,               \* status requests whose listener ran without responding
  request,               \* the last proof or root query received
  \* worker threads
  wPc, wIdx, wRoots, progress,
  port,                  \* per worker: messages posted to the main thread, in order
  inbox,                 \* per worker: getProgress messages not yet handled
  events,                \* per worker: 'error' / 'exit' events not yet handled
  \* environment
  db,                    \* record source: record id -> record
  files,                 \* chain -> snapshot artifact on disk
  \* one run of generateMerkleTreesByChain, page by page
  build,
  \* the single-tree draft of the server
  draft

serverVars == <<serverPc, merkleTrees, rootHashes, merkleTreePaths,
                regenerationComplete, isRegenerating, regenerationWorker,
                loadKeys, listeners, statusSent, response, dropped, request>>
workerVars == <<wPc, wIdx, wRoots, progress, port, inbox, events>>
vars == <<serverVars, workerVars, db, files, build, draft>>

\* ------------------------------------------------------------- leaf hasher
Tokens == {10, 20}
Citizens == {1, 2}
CitizenWidth == 4

\* keccak256(abi.encode(uint256 token, uint256 citizenId)): the two fields
\* are encoded at fixed width one after the other and the hash is taken to
\* be collision free, so a leaf is identified with its encoded pre-image.
hashToken(token, citizenId) == token * CitizenWidth + citizenId

\* ------------------------------------------------------------ merkle tree
Min2(a, b) == IF a <= b THEN a ELSE b
Max2(a, b) == IF a <= b THEN b ELSE a

\* keccak256 of the concatenation of two nodes, collision free on the
\* ordered pair (Cantor pairing, shifted past the empty root).
HashConcat(a, b) == ((a + b) * (a + b + 1)) \div 2 + b + 1

\* options.sortPairs: the two nodes are sorted before they are combined
HashPair(a, b, sortPairs) ==
  IF sortPairs THEN HashConcat(Min2(a, b), Max2(a, b)) ELSE HashConcat(a, b)

\* one layer of the tree; an odd last node is carried up unchanged
NextLayer(nodes, sortPairs) ==
  [k \in 1..((Len(nodes) + 1) \div 2) |->
     IF 2 * k <= Len(nodes)
       THEN HashPair(nodes[2 * k - 1], nodes[2 * k], sortPairs)
       ELSE nodes[2 * k - 1]]

EmptyRoot == 0

RECURSIVE LayersRoot(_, _)
LayersRoot(nodes, sortPairs) ==
  IF Len(nodes) = 0 THEN EmptyRoot
  ELSE IF Len(nodes) = 1 THEN nodes[1]
  ELSE LayersRoot(NextLayer(nodes, sortPairs), sortPairs)

BuilderOptions == [hashLeaves |-> FALSE, sortPairs |-> TRUE]

\* StoredOptions without the pair sorting the builder uses
StoredOptionsUnsorted == [hashLeaves |-> FALSE, sortPairs |-> FALSE]

StoredOptions == [hashLeaves |-> FALSE, sortPairs |-> TRUE]

\* the hash function applied to a leaf when options.hashLeaves is set
HashLeaf(x) == HashConcat(x, x)

\* the leaves of new MerkleTree(leaves, keccak256, options)
TreeLeaves(leaves, options) ==
  IF options.hashLeaves THEN [k \in 1..Len(leaves) |-> HashLeaf(leaves[k])] ELSE leaves

\* tree.getHexRoot() of a tree over the given leaves
getHexRoot(leaves, options) == LayersRoot(TreeLeaves(leaves, options), options.sortPairs)

\* position of the last leaf equal to `leaf`, 0 when there is none
LeafIndex(leaves, leaf) ==
  LET found == {k \in 1..Len(leaves) : leaves[k] = leaf}
  IN IF found = {} THEN 0 ELSE CHOOSE k \in found : \A j \in found : j <= k

\* the siblings on the path from the node at `index` up to the root; a node
\* without a sibling contributes nothing
RECURSIVE ProofFrom(_, _, _)
ProofFrom(nodes, index, sortPairs) ==
  IF Len(nodes) <= 1 THEN <<>>
  ELSE LET pairIndex == IF index % 2 = 0 THEN index - 1 ELSE index + 1
           sibling == IF pairIndex <= Len(nodes) THEN <<nodes[pairIndex]>> ELSE <<>>
       IN sibling \o ProofFrom(NextLayer(nodes, sortPairs), (index + 1) \div 2, sortPairs)

\* tree.getHexProof(leaf): empty for a leaf that is not in the tree
getHexProof(leaves, options, leaf) ==
  LET index == LeafIndex(TreeLeaves(leaves, options), leaf)
  IN IF index = 0 THEN <<>>
     ELSE ProofFrom(TreeLeaves(leaves, options), index, options.sortPairs)

\* ---------------------------------------------------------- record source
RECURSIVE FirstIds(_, _)
FirstIds(S, n) ==
  IF n = 0 \/ S = {} THEN <<>>
  ELSE LET m == CHOOSE x \in S : \A y \in S : x <= y
       IN <<m>> \o FirstIds(S \ {m}, n - 1)

\* prisma.citizenTokens.count({ where: { chain } })
CountTokens(records, chain) ==
  Cardinality({id \in 1..Len(records) : records[id].chain = chain})

\* FindMany with the cursor taken inclusively (gte for gt)
FindManyFromCursor(records, chain, lastId, take) ==
  FirstIds({id \in 1..Len(records) : id >= lastId /\ records[id].chain = chain}, take)

\* prisma.citizenTokens.findMany({ take, where: { id: { gt: lastId }, chain },
\*                                 orderBy: { id: 'asc' } })
FindMany(records, chain, lastId, take) ==
  FirstIds({id \in 1..Len(records) : id > lastId /\ records[id].chain = chain}, take)

\* tokens.map(token => hashToken(token.token, token.citizenId))
LeavesOf(records, ids) ==
  [k \in 1..Len(ids) |-> hashToken(records[ids[k]].token, records[ids[k]].citizenId)]


\* ------------------------------------------------- the page loop, as a whole
\* Percent counting what is left instead of what is done
PercentRemaining(processedCount, totalTokens) ==
  ((totalTokens - processedCount) * 100) \div totalTokens

\* Math.floor((processedCount / totalTokens) * 100)
Percent(processedCount, totalTokens) == (processedCount * 100) \div totalTokens

\* Math.floor(((i + chainProgress / 100) / CHAINS.length) * 100), i from 0
Overall(i, chainProgress) == (100 * i + chainProgress) \div Len(CHAINS)

\* The while loop of generateMerkleTreesByChain over records that do not
\* change while it runs: the leaves added and the processedCount after
\* every page (one progress report is posted per page).
RECURSIVE StreamPages(_, _, _, _, _, _)
StreamPages(records, chain, totalTokens, batchSize, lastId, acc) ==
  IF ~(acc.processedCount < totalTokens) THEN acc
  ELSE LET tokens == FindMany(records, chain, lastId, batchSize)
       IN IF Len(tokens) = 0 THEN acc
          ELSE StreamPages(records, chain, totalTokens, batchSize,
                           tokens[Len(tokens)],
                           [leaves |-> acc.leaves \o LeavesOf(records, tokens),
                            processedCount |-> acc.processedCount + Len(tokens),
                            reports |-> Append(acc.reports,
                                               acc.processedCount + Len(tokens))])

NoPages == [leaves |-> <<>>, processedCount |-> 0, reports |-> <<>>]

\* ----------------------------------------------------------------- values
NoRoot == -1
NoRoots == [c \in ChainSet |-> NoRoot]
\* complete: the writeFile that produced the artifact has resolved
NoFile ==
  [exists |-> FALSE, complete |-> TRUE, leaves |-> <<>>, options |-> StoredOptions,
   gen |-> NoWorker]
NoTree == [loaded |-> FALSE, leaves |-> <<>>, options |-> StoredOptions, gen |-> NoWorker]
NoPercent == -1
InitialProgress ==
  [overall |-> 0, currentChain |-> "", chainsCompleted |-> 0,
   chainProgress |-> [c \in ChainSet |-> NoPercent]]
NoResponse == [route |-> "", status |-> 0, body |-> <<>>]
NoRequest == [route |-> "", chain |-> "", citizenId |-> 0, token |-> 0]

ProgressMessage(p) ==
  [type |-> "progress", progress |-> p, merkleTreePaths |-> <<>>, rootHashes |-> NoRoots]
CompleteMessage(paths, roots) ==
  [type |-> "complete", progress |-> InitialProgress, merkleTreePaths |-> paths,
   rootHashes |-> roots]
ErrorMessage ==
  [type |-> "error", progress |-> InitialProgress, merkleTreePaths |-> <<>>,
   rootHashes |-> NoRoots]

Running == serverPc # "exited"
Alive(w) == wPc[w] \in {"build", "finally"}

\* the configured page size of the worker
batchSize == MaxBatchSize

\* --------------------------------------------------------- worker threads
\* progress after the page that brought processedCount to `processed`
PageProgress(p, i, chain, processed, totalTokens) ==
  [p EXCEPT !.chainProgress[chain] = Percent(processed, totalTokens),
            !.overall = Overall(i, Percent(processed, totalTokens))]

\* One iteration of the for loop of generateMerkleTreesByChain: the tree of
\* CHAINS[wIdx] is built page by page and persisted.  After the last chain the
\* function returns and the worker posts 'complete' with no await in between.
WorkerBuildChain(w) ==
  /\ Running /\ wPc[w] = "build" /\ wIdx[w] <= Len(CHAINS)
  /\ LET chain == CHAINS[wIdx[w]]
         totalTokens == CountTokens(db, chain)
         pages == StreamPages(db, chain, totalTokens, batchSize, 0, NoPages)
         started == [progress[w] EXCEPT !.currentChain = chain,
                                        !.chainProgress[chain] = 0]
         reports == [k \in 1..Len(pages.reports) |->
                       ProgressMessage(PageProgress(started, wIdx[w] - 1, chain,
                                                    pages.reports[k], totalTokens))]
         last == IF Len(reports) = 0 THEN started ELSE reports[Len(reports)].progress
         rootHash == getHexRoot(pages.leaves, BuilderOptions)
         roots == [wRoots[w] EXCEPT ![chain] = rootHash]
         isLast == wIdx[w] = Len(CHAINS)
     IN /\ port' = [port EXCEPT ![w] =
                      IF isLast THEN Append(@ \o reports, CompleteMessage(CHAINS, roots))
                                ELSE @ \o reports]
        /\ files' = [files EXCEPT ![chain] =
                       [exists |-> TRUE, complete |-> TRUE, leaves |-> pages.leaves,
                        options |-> StoredOptions, gen |-> w]]
        /\ wRoots' = [wRoots EXCEPT ![w] = roots]
        /\ progress' = [progress EXCEPT ![w] =
                          [last EXCEPT !.chainsCompleted = @ + 1]]
        /\ wIdx' = [wIdx EXCEPT ![w] = @ + 1]
        /\ wPc' = [wPc EXCEPT ![w] = IF isLast THEN "finally" ELSE "build"]
  /\ UNCHANGED <<serverVars, inbox, events, db, build, draft>>

\* A query of the record source or a file operation throws while
\* CHAINS[wIdx] is built: the catch of the worker's main function reports it.
WorkerBuildFails(w) ==
  /\ Running /\ wPc[w] = "build" /\ wIdx[w] <= Len(CHAINS)
  /\ progress' = [progress EXCEPT ![w].currentChain = CHAINS[wIdx[w]],
                                  ![w].chainProgress[CHAINS[wIdx[w]]] = 0]
  /\ port' = [port EXCEPT ![w] = Append(@, ErrorMessage)]
  /\ wPc' = [wPc EXCEPT ![w] = "finally"]
  /\ UNCHANGED <<serverVars, wIdx, wRoots, inbox, events, db, files, build, draft>>

\* finally { await prisma.$disconnect() }.  When it resolves nothing changes:
\* the parentPort listener keeps the thread alive and answering.  When it
\* rejects nothing catches it: the thread ends with an uncaught exception and
\* the main thread gets 'error' and then 'exit' (code 1).  The end of the
\* initial worker matters only while startServer awaits it (afterwards reject
\* acts on a settled promise).
WorkerDisconnectFails(w) ==
  /\ Running /\ wPc[w] = "finally"
  /\ w = 0 => serverPc = "awaitInitial"
  /\ wPc' = [wPc EXCEPT ![w] = "dead"]
  /\ events' = [events EXCEPT ![w] = <<"error", "exit">>]
  /\ inbox' = [inbox EXCEPT ![w] = 0]
  /\ UNCHANGED <<serverVars, wIdx, wRoots, progress, port, db, files, build, draft>>

\* parentPort.on('message'): a getProgress request is answered
WorkerGetProgress(w) ==
  /\ Running /\ Alive(w) /\ inbox[w] > 0
  /\ inbox' = [inbox EXCEPT ![w] = @ - 1]
  /\ port' = [port EXCEPT ![w] = Append(@, ProgressMessage(progress[w]))]
  /\ UNCHANGED <<serverVars, wPc, wIdx, wRoots, progress, events, db, files, build, draft>>


\* ------------------------------------------------------------- main thread
\* startServer loading the artifacts found on disk instead of building
StartServerFromSnapshots ==
  /\ serverPc = "start"
  /\ IF \A c \in ChainSet : files[c].exists
       THEN /\ serverPc' = "listening"
            /\ merkleTrees' = [c \in ChainSet |->
                                [loaded |-> TRUE, leaves |-> files[c].leaves,
                                 options |-> files[c].options, gen |-> files[c].gen]]
            /\ rootHashes' = [c \in ChainSet |->
                               getHexRoot(files[c].leaves, files[c].options)]
            /\ UNCHANGED wPc
       ELSE /\ serverPc' = "awaitInitial"
            /\ wPc' = [wPc EXCEPT ![0] = "build"]
            /\ UNCHANGED <<merkleTrees, rootHashes>>
  /\ UNCHANGED <<merkleTreePaths, regenerationComplete,
                 isRegenerating, regenerationWorker, loadKeys, listeners, statusSent,
                 response, dropped, request, wIdx, wRoots, progress, port, inbox, events,
                 db, files, build, draft>>

\* startServer up to the await: generateInitialMerkleTrees starts the initial
\* generation worker, whatever is on disk
StartServer ==
  /\ serverPc = "start"
  /\ serverPc' = "awaitInitial"
  /\ wPc' = [wPc EXCEPT ![0] = "build"]
  /\ UNCHANGED <<merkleTrees, rootHashes, merkleTreePaths, regenerationComplete,
                 isRegenerating, regenerationWorker, loadKeys, listeners, statusSent,
                 response, dropped, request, wIdx, wRoots, progress, port, inbox, events,
                 db, files, build, draft>>

\* body of the response of GET /regeneration-status
StatusBody(isComplete, p) ==
  <<isComplete, p.overall, p.currentChain, p.chainsCompleted, p.chainProgress>>

\* the once('message') listeners of the pending status requests run on the
\* next message of the worker, whatever its type, and are then removed
RunListeners(w, message) ==
  /\ listeners' = [listeners EXCEPT ![w] = 0]
  /\ IF listeners[w] > 0 /\ message.type = "progress"
       THEN response' = [route |-> "status", status |-> 200,
                         body |-> StatusBody(regenerationComplete, message.progress)]
       ELSE response' = response
  /\ dropped' = IF message.type = "progress" THEN dropped ELSE dropped + listeners[w]

\* the 'complete' branch of both message handlers, up to its first await
BeginPublish(w, message) ==
  /\ merkleTreePaths' = message.merkleTreePaths
  /\ rootHashes' = message.rootHashes
  /\ loadKeys' = [loadKeys EXCEPT ![w] = message.merkleTreePaths]

\* worker.on('message') of generateInitialMerkleTrees (w = 0) and of
\* POST /regenerate-trees (w > 0): the handler runs up to its first await
HandleMessage(w) ==
  /\ Running /\ port[w] # <<>>
  /\ LET message == Head(port[w])
     IN /\ port' = [port EXCEPT ![w] = Tail(@)]
        /\ RunListeners(w, message)
        /\ IF message.type = "complete"
             THEN BeginPublish(w, message)
             ELSE UNCHANGED <<merkleTreePaths, rootHashes, loadKeys>>
  /\ UNCHANGED <<serverPc, merkleTrees, regenerationComplete, isRegenerating,
                 regenerationWorker, statusSent, request, wPc, wIdx, wRoots, progress,
                 inbox, events, db, files, build, draft>>

\* new MerkleTree(treeData.leaves, keccak256, treeData.options)
LoadedTree(file) ==
  [loaded |-> TRUE, leaves |-> file.leaves, options |-> file.options, gen |-> file.gen]

\* what follows `await loadMerkleTrees()` in the two 'complete' branches
EndPublish(w) ==
  /\ regenerationComplete' = TRUE
  /\ IF w = 0
       THEN /\ serverPc' = IF serverPc = "awaitInitial" THEN "listening" ELSE serverPc
            /\ UNCHANGED isRegenerating
       ELSE /\ isRegenerating' = FALSE
            /\ UNCHANGED serverPc

\* the handler going on before loadMerkleTrees has loaded every key
LoopEndsEarly(remaining) == TRUE

\* the for loop of loadMerkleTrees ends when no key is left
LoopEnds(remaining) == remaining = <<>>

\* One iteration of the loop of loadMerkleTrees run by the 'complete' handler
\* of worker w: the artifact is read and the tree of the chain is replaced
\* (readFile, gunzip and the assignment are taken as one step; other handlers
\* run between two iterations).  After the last iteration the handler runs to
\* its end.
LoadTree(w) ==
  /\ Running /\ loadKeys[w] # <<>>
  /\ LET chain == Head(loadKeys[w])
     IN IF files[chain].exists
          THEN /\ merkleTrees' = [merkleTrees EXCEPT ![chain] = LoadedTree(files[chain])]
               /\ loadKeys' = [loadKeys EXCEPT ![w] = Tail(@)]
               /\ IF LoopEnds(Tail(loadKeys[w]))
                    THEN EndPublish(w)
                    ELSE UNCHANGED <<serverPc, regenerationComplete, isRegenerating>>
          ELSE \* readFile rejects: unhandledRejection, process.exit(1)
               /\ serverPc' = "exited"
               /\ UNCHANGED <<merkleTrees, loadKeys, regenerationComplete, isRegenerating>>
  /\ UNCHANGED <<rootHashes, merkleTreePaths, regenerationWorker, listeners, statusSent,
                 response, dropped, request, workerVars, db, files, build, draft>>

\* worker.on('error'): reject of generateInitialMerkleTrees (w = 0, startServer
\* catches it and exits) or the handler of POST /regenerate-trees (w > 0)
HandleError(w) ==
  /\ Running /\ events[w] # <<>> /\ Head(events[w]) = "error"
  /\ events' = [events EXCEPT ![w] = Tail(@)]
  /\ IF w = 0
       THEN /\ serverPc' = IF serverPc = "awaitInitial" THEN "exited" ELSE serverPc
            /\ UNCHANGED <<isRegenerating, regenerationComplete>>
       ELSE /\ isRegenerating' = FALSE
            /\ regenerationComplete' = FALSE
            /\ UNCHANGED serverPc
  /\ UNCHANGED <<merkleTrees, rootHashes, merkleTreePaths, regenerationWorker, loadKeys,
                 listeners, statusSent, response, dropped, request, wPc, wIdx, wRoots, progress,
                 port, inbox, db, files, build, draft>>

\* worker.on('exit') with a code other than 0; the pending messages of the
\* worker have been delivered and its 'message' listeners are removed
HandleExit(w) ==
  /\ Running /\ events[w] # <<>> /\ Head(events[w]) = "exit" /\ port[w] = <<>>
  /\ events' = [events EXCEPT ![w] = Tail(@)]
  /\ listeners' = [listeners EXCEPT ![w] = 0]
  /\ dropped' = dropped + listeners[w]
  /\ IF w = 0
       THEN /\ serverPc' = IF serverPc = "awaitInitial" THEN "exited" ELSE serverPc
            /\ UNCHANGED <<isRegenerating, regenerationComplete>>
       ELSE /\ isRegenerating' = FALSE
            /\ regenerationComplete' = FALSE
            /\ UNCHANGED serverPc
  /\ UNCHANGED <<merkleTrees, rootHashes, merkleTreePaths, regenerationWorker, loadKeys,
                 statusSent, response, request, wPc, wIdx, wRoots, progress, port,
                 inbox, db, files, build, draft>>

\* POST /regenerate-trees while a regeneration is running: 409
RegenerateRejected ==
  /\ serverPc = "listening" /\ isRegenerating
  /\ response' = [route |-> "regenerate", status |-> 409,
                  body |-> <<"Regeneration already in progress">>]
  /\ UNCHANGED <<serverPc, merkleTrees, rootHashes, merkleTreePaths,
                 regenerationComplete, isRegenerating, regenerationWorker, loadKeys,
                 listeners, statusSent, dropped, request, workerVars, db, files, build, draft>>

\* POST /regenerate-trees otherwise: the flags are set, the response is sent
\* and a new regeneration worker is started
RegenerateAccepted(w) ==
  /\ serverPc = "listening" /\ ~isRegenerating
  /\ w > 0 /\ wPc[w] = "none" /\ \A v \in 1..(w - 1) : wPc[v] # "none"
  /\ isRegenerating' = TRUE
  /\ regenerationComplete' = FALSE
  /\ response' = [route |-> "regenerate", status |-> 200,
                  body |-> <<"Merkle tree regeneration initiated">>]
  /\ regenerationWorker' = w
  /\ wPc' = [wPc EXCEPT ![w] = "build"]
  /\ UNCHANGED <<serverPc, merkleTrees, rootHashes, merkleTreePaths, loadKeys,
                 listeners, statusSent, dropped, request, wIdx, wRoots, progress, port, inbox,
                 events, db, files, build, draft>>

\* GET /regeneration-status when no regeneration worker was ever started
StatusIdle ==
  /\ serverPc = "listening" /\ statusSent < MaxStatusRequests
  /\ regenerationWorker = NoWorker
  /\ statusSent' = statusSent + 1
  /\ response' = [route |-> "status", status |-> 200,
                  body |-> <<regenerationComplete, 0, "", 0,
                             [c \in ChainSet |-> NoPercent]>>]
  /\ UNCHANGED <<serverPc, merkleTrees, rootHashes, merkleTreePaths,
                 regenerationComplete, isRegenerating, regenerationWorker, loadKeys,
                 listeners, dropped, request, workerVars, db, files, build, draft>>

\* GET /regeneration-status otherwise: getProgress is posted to the worker (a
\* worker that has ended never receives it) and the response waits for the
\* next message of that worker
StatusAsk ==
  /\ serverPc = "listening" /\ statusSent < MaxStatusRequests
  /\ regenerationWorker # NoWorker
  /\ statusSent' = statusSent + 1
  /\ inbox' = [inbox EXCEPT ![regenerationWorker] =
                 IF Alive(regenerationWorker) THEN @ + 1 ELSE @]
  /\ listeners' = [listeners EXCEPT ![regenerationWorker] = @ + 1]
  /\ UNCHANGED <<serverPc, merkleTrees, rootHashes, merkleTreePaths,
                 regenerationComplete, isRegenerating, regenerationWorker, loadKeys,
                 response, dropped, request, wPc, wIdx, wRoots, progress, port, events,
                 db, files, build, draft>>

\* ------------------------------------------------------------------ queries
\* property names that every object literal inherits from Object.prototype
ObjectPrototypeKeys == {"constructor", "toString", "valueOf", "hasOwnProperty"}

\* the chains the README lists as supported
DocumentedChains == <<"ETH", "ARB", "BASE", "POL", "AVAX">>

\* the :chain parameter of the requests
RequestChains == {CHAINS[1], CHAINS[Len(CHAINS)], DocumentedChains[5], "constructor"}

\* merkleTrees[chain] is truthy: an own property set by loadMerkleTrees or
\* a property inherited from Object.prototype
TreeFound(chain) ==
  \/ chain \in ChainSet /\ merkleTrees[chain].loaded
  \/ chain \in ObjectPrototypeKeys

\* rootHashes[chain] is truthy (the root "0x" of an empty tree is)
RootFound(chain) ==
  \/ chain \in ChainSet /\ rootHashes[chain] # NoRoot
  \/ chain \in ObjectPrototypeKeys

queryVarsOff ==
  <<serverPc, merkleTrees, rootHashes, merkleTreePaths, regenerationComplete,
    isRegenerating, regenerationWorker, loadKeys, listeners, statusSent, dropped,
    workerVars, db, files, build, draft>>

\* GET /proof/:chain/:citizenId/:token.  For an inherited property the call
\* of getHexProof throws a TypeError, which Express answers with status 500.
GetProof(chain, citizenId, token) ==
  /\ serverPc = "listening"
  /\ request' = [route |-> "proof", chain |-> chain, citizenId |-> citizenId,
                 token |-> token]
  /\ response' =
       IF ~TreeFound(chain)
         THEN [route |-> "proof", status |-> 400,
               body |-> [error |-> "Invalid chain or Merkle tree not loaded"]]
       ELSE IF chain \notin ChainSet
         THEN [route |-> "proof", status |-> 500,
               body |-> [error |-> "Internal Server Error"]]
       ELSE [route |-> "proof", status |-> 200,
             body |-> [proof |-> getHexProof(merkleTrees[chain].leaves,
                                             merkleTrees[chain].options,
                                             hashToken(token, citizenId))]]
  /\ UNCHANGED queryVarsOff

\* GET /rootHash/:chain.  An inherited property is a function, which
\* JSON.stringify leaves out: the body is the empty object.
GetRootHash(chain) ==
  /\ serverPc = "listening"
  /\ request' = [route |-> "rootHash", chain |-> chain, citizenId |-> 0, token |-> 0]
  /\ response' =
       IF ~RootFound(chain)
         THEN [route |-> "rootHash", status |-> 400,
               body |-> [error |-> "Invalid or unsupported chain"]]
       ELSE IF chain \notin ChainSet
         THEN [route |-> "rootHash", status |-> 200, body |-> <<>>]
       ELSE [route |-> "rootHash", status |-> 200,
             body |-> [rootHash |-> rootHashes[chain]]]
  /\ UNCHANGED queryVarsOff

\* GET /proof/:citizenId/:token of the draft
DraftGetProof(citizenId, token) ==
  /\ draft.pc = "listening"
  /\ request' = [route |-> "proof", chain |-> "", citizenId |-> citizenId,
                 token |-> token]
  /\ response' =
       IF ~draft.merkleTree.loaded
         THEN [route |-> "proof", status |-> 503,
               body |-> [error |-> "Merkle tree not yet generated"]]
       ELSE [route |-> "proof", status |-> 200,
             body |-> [token |-> token,
                       merkleProof |-> getHexProof(draft.merkleTree.leaves, BuilderOptions,
                                                   hashToken(token, citizenId)),
                       rootHash |-> draft.rootHash]]
  /\ UNCHANGED queryVarsOff

\* GET /rootHash of the draft
DraftGetRootHash ==
  /\ draft.pc = "listening"
  /\ request' = [route |-> "rootHash", chain |-> "", citizenId |-> 0, token |-> 0]
  /\ response' =
       IF draft.rootHash = NoRoot
         THEN [route |-> "rootHash", status |-> 503,
               body |-> [error |-> "Root hash not yet generated"]]
       ELSE [route |-> "rootHash", status |-> 200,
             body |-> [rootHash |-> draft.rootHash]]
  /\ UNCHANGED queryVarsOff

\* ------------------------------------------------------------- environment
\* a record is added to the record source; identifiers only grow
InsertRecord(chain) ==
  /\ Running /\ Len(db) < MaxRecords
  /\ db' = Append(db, [chain |-> chain, token |-> 10 * (Len(db) + 1), citizenId |-> 1])
  /\ UNCHANGED <<serverVars, workerVars, files, build, draft>>

\* the chains records are inserted into
InsertChains == {CHAINS[1], CHAINS[2]}

NoBuild == [pc |-> "off", processedCount |-> 0, totalTokens |-> 0, failures |-> 0]
NoDraft == [pc |-> "off", processedCount |-> 0, totalTokens |-> 0, failures |-> 0,
            exhausted |-> 0]

\* artifacts left on disk by an earlier run of the process
PriorRun == -2
PriorFile ==
  [exists |-> TRUE, complete |-> TRUE, leaves |-> <<>>, options |-> StoredOptions,
   gen |-> PriorRun]

ServerInit(pc) ==
  /\ serverPc = pc
  /\ merkleTrees = [c \in ChainSet |-> NoTree]
  /\ rootHashes = NoRoots
  /\ merkleTreePaths = <<>>
  /\ regenerationComplete = FALSE
  /\ isRegenerating = FALSE
  /\ regenerationWorker = NoWorker
  /\ loadKeys = [w \in Workers |-> <<>>]
  /\ listeners = [w \in Workers |-> 0]
  /\ statusSent = 0
  /\ response = NoResponse
  /\ dropped = 0
  /\ request = NoRequest
  /\ wPc = [w \in Workers |-> "none"]
  /\ wIdx = [w \in Workers |-> 1]
  /\ wRoots = [w \in Workers |-> NoRoots]
  /\ progress = [w \in Workers |-> InitialProgress]
  /\ port = [w \in Workers |-> <<>>]
  /\ inbox = [w \in Workers |-> 0]
  /\ events = [w \in Workers |-> <<>>]

\* the process starts on a disk with or without the artifacts of an earlier run
Init ==
  /\ ServerInit("start")
  /\ db = <<>>
  /\ files \in {[c \in ChainSet |-> NoFile], [c \in ChainSet |-> PriorFile]}
  /\ build = NoBuild
  /\ draft = NoDraft

WorkerNext ==
  \/ \E w \in Workers : WorkerBuildChain(w)
  \/ \E w \in Workers : WorkerBuildFails(w)
  \/ \E w \in Workers : WorkerDisconnectFails(w)

HandlerNext ==
  \/ \E w \in Workers : HandleMessage(w)
  \/ \E w \in Workers : LoadTree(w)
  \/ \E w \in Workers : HandleError(w)
  \/ \E w \in Workers : HandleExit(w)

RegenerateNext ==
  \/ RegenerateRejected
  \/ \E w \in Workers : RegenerateAccepted(w)

Next ==
  \/ StartServer
  \/ WorkerNext
  \/ HandlerNext
  \/ RegenerateNext
  \/ \E chain \in InsertChains : InsertRecord(chain)

Spec == Init /\ [][Next]_vars

\* the server with status requests, over a record source that does not change
StatusInit ==
  /\ ServerInit("start")
  /\ db \in {<<>>, <<[chain |-> CHAINS[1], token |-> 10, citizenId |-> 1]>>}
  /\ files = [c \in ChainSet |-> NoFile]
  /\ build = NoBuild
  /\ draft = NoDraft

StatusNext ==
  \/ StartServer
  \/ WorkerNext
  \/ \E w \in Workers : WorkerGetProgress(w)
  \/ HandlerNext
  \/ RegenerateNext
  \/ StatusIdle
  \/ StatusAsk

StatusSpec == StatusInit /\ [][StatusNext]_vars


\* -------------------------------- generateMerkleTreesByChain, page by page
\* FindMany of the draft: the same query without the chain filter
FindManyAny(records, lastId, take) ==
  FirstIds({id \in 1..Len(records) : id > lastId}, take)

buildVarsOff == <<serverVars, workerVars, files, draft>>

\* CurrentChain with the partition list walked from its end
CurrentChainReversed == CHAINS[Len(CHAINS) + 1 - build.i]

CurrentChain == CHAINS[build.i]

\* top of the for loop: the chain becomes current and its records are counted
BuildCount ==
  /\ build.pc = "count"
  /\ build' = [build EXCEPT
       !.pc = "fetch",
       !.progress.currentChain = CurrentChain,
       !.progress.chainProgress[CurrentChain] = 0,
       !.lastId = 0,
       !.processedCount = 0,
       !.totalTokens = CountTokens(db, CurrentChain),
       !.treeBuilder = <<>>,
       !.taken = <<>>]
  /\ UNCHANGED <<buildVarsOff, db>>

\* one pass of the while loop: a page is fetched; an empty page ends the loop,
\* otherwise its leaves are added and the progress is posted
BuildFetch ==
  /\ build.pc = "fetch" /\ build.processedCount < build.totalTokens
  /\ LET tokens == FindMany(db, CurrentChain, build.lastId, build.batchSize)
         processed == build.processedCount + Len(tokens)
         p == PageProgress(build.progress, build.i - 1, CurrentChain,
                           processed, build.totalTokens)
     IN IF Len(tokens) = 0
          THEN build' = [build EXCEPT !.pc = "persist"]
          ELSE build' = [build EXCEPT
                 !.treeBuilder = @ \o LeavesOf(db, tokens),
                 !.taken = @ \o tokens,
                 !.processedCount = processed,
                 !.lastId = tokens[Len(tokens)],
                 !.progress = p,
                 !.posted = Append(@, ProgressMessage(p))]
  /\ UNCHANGED <<buildVarsOff, db>>

\* findMany rejects: the worker's loop has no catch, the error leaves
\* generateMerkleTreesByChain and the worker's main function reports it
BuildFetchFails ==
  /\ build.pc = "fetch" /\ build.processedCount < build.totalTokens
  /\ build.failures < MaxFetchFailures
  /\ build' = [build EXCEPT !.pc = "failed",
                            !.failures = @ + 1,
                            !.attempts = 1,
                            !.posted = Append(@, ErrorMessage)]
  /\ UNCHANGED <<buildVarsOff, db>>

\* the artifact at treePath while fs.writeFile(treePath, compressedData) is
\* pending: the file is opened with flag 'w', which truncates it in place
TruncatedFile ==
  [exists |-> TRUE, complete |-> FALSE, leaves |-> <<>>, options |-> StoredOptions,
   gen |-> 0]

\* after the while loop: the root is taken, the tree is serialised and
\* fs.writeFile(treePath, ...) begins
BuildPersist ==
  /\ \/ build.pc = "persist"
     \/ build.pc = "fetch" /\ ~(build.processedCount < build.totalTokens)
  /\ build' = [build EXCEPT !.pc = "write", !.written[CurrentChain] = TruncatedFile]
  /\ UNCHANGED <<buildVarsOff, db>>

\* fs.writeFile rejects (disk full, I/O error): what was written so far stays
\* at treePath and the worker's main function reports the error
BuildWriteFails ==
  /\ build.pc = "write"
  /\ build' = [build EXCEPT !.pc = "failed", !.posted = Append(@, ErrorMessage)]
  /\ UNCHANGED <<buildVarsOff, db>>

\* fs.writeFile resolves: the chain is recorded; after the last chain
\* 'complete' is posted
BuildWritten ==
  /\ build.pc = "write"
  /\ LET rootHash == getHexRoot(build.treeBuilder, BuilderOptions)
         paths == Append(build.merkleTreePaths, CurrentChain)
         roots == [build.rootHashes EXCEPT ![CurrentChain] = rootHash]
         isLast == build.i = Len(CHAINS)
     IN build' = [build EXCEPT
          !.pc = IF isLast THEN "done" ELSE "count",
          !.i = @ + 1,
          !.written[CurrentChain] =
             [exists |-> TRUE, complete |-> TRUE, leaves |-> build.treeBuilder,
              options |-> StoredOptions, gen |-> 0],
          !.merkleTreePaths = paths,
          !.rootHashes = roots,
          !.progress.chainsCompleted = @ + 1,
          !.posted = IF isLast THEN Append(@, CompleteMessage(paths, roots)) ELSE @]
  /\ UNCHANGED <<buildVarsOff, db>>

\* ------------------------------------------- the single-tree draft server
retries == 3
BackoffUnit == 5000

Min(a, b) == IF a <= b THEN a ELSE b

\* startServer of the draft calls generateMerkleTree: the records are counted
DraftStart ==
  /\ draft.pc = "start"
  /\ draft' = [draft EXCEPT !.pc = "loop", !.totalTokens = Len(db)]
  /\ UNCHANGED <<serverVars, workerVars, files, build, db>>

\* generateMerkleTree after its loop, and startServer after the await
DraftFinalize(d) ==
  [d EXCEPT !.pc = "listening",
            !.merkleTree = [loaded |-> TRUE, leaves |-> d.treeBuilder],
            !.rootHash = getHexRoot(d.treeBuilder, BuilderOptions)]

\* the while condition is false: the tree is published, the server listens
DraftLoopEnds ==
  /\ draft.pc = "loop" /\ ~(draft.processedCount < draft.totalTokens)
  /\ draft' = DraftFinalize(draft)
  /\ UNCHANGED <<serverVars, workerVars, files, build, db>>

\* an attempt of fetchTokensBatch succeeds: an empty page breaks the loop,
\* otherwise the leaves are added
DraftFetch ==
  /\ draft.pc = "loop" /\ draft.processedCount < draft.totalTokens
  /\ LET take == Min(draft.batchSize, draft.totalTokens - draft.processedCount)
         tokens == FindManyAny(db, draft.lastId, take)
     IN IF Len(tokens) = 0
          THEN draft' = DraftFinalize([draft EXCEPT !.attempt = 1])
          ELSE draft' = [draft EXCEPT
                 !.treeBuilder = @ \o LeavesOf(db, tokens),
                 !.taken = @ \o tokens,
                 !.processedCount = @ + Len(tokens),
                 !.lastId = tokens[Len(tokens)],
                 !.attempt = 1]
  /\ UNCHANGED <<serverVars, workerVars, files, build, db>>

\* an attempt of fetchTokensBatch fails: before the last attempt it waits
\* 5000 * attempt and tries again; the last attempt throws, the catch in the
\* loop of generateMerkleTree waits and the loop goes round again
DraftFetchFails ==
  /\ draft.pc = "loop" /\ draft.processedCount < draft.totalTokens
  /\ draft.failures < MaxFetchFailures
  /\ IF draft.attempt = retries
       THEN draft' = [draft EXCEPT !.attempt = 1,
                                   !.failures = @ + 1,
                                   !.exhausted = @ + 1]
       ELSE draft' = [draft EXCEPT !.attempt = @ + 1,
                                   !.failures = @ + 1,
                                   !.delay = BackoffUnit * draft.attempt]
  /\ UNCHANGED <<serverVars, workerVars, files, build, db>>

\* ---------------------------------------------------------------- BuildSpec
\* a record is added to the record source while a builder runs
SourceGrows(chain, token) ==
  /\ Len(db) < MaxBuildRecords
  /\ db' = Append(db, [chain |-> chain, token |-> token, citizenId |-> 1])
  /\ UNCHANGED <<serverVars, workerVars, files, build, draft>>

SourceRecords == [chain : InsertChains, token : Tokens, citizenId : {1}]

RECURSIVE SeqsUpTo(_, _)
SeqsUpTo(S, n) ==
  IF n = 0 THEN {<<>>}
  ELSE LET shorter == SeqsUpTo(S, n - 1)
       IN shorter \cup {Append(q, x) : q \in shorter, x \in S}

StartOfBuild(size, records) ==
  [pc |-> "count", batchSize |-> size, i |-> 1, lastId |-> 0,
   processedCount |-> 0, totalTokens |-> 0, treeBuilder |-> <<>>, taken |-> <<>>,
   progress |-> InitialProgress, posted |-> <<>>,
   merkleTreePaths |-> <<>>, rootHashes |-> NoRoots,
   written |-> [c \in ChainSet |-> NoFile],
   failures |-> 0, attempts |-> 0, startLen |-> Len(records)]

StartOfDraft(size, records) ==
  [pc |-> "start", batchSize |-> size, lastId |-> 0, processedCount |-> 0,
   totalTokens |-> 0, treeBuilder |-> <<>>, taken |-> <<>>,
   merkleTree |-> [loaded |-> FALSE, leaves |-> <<>>], rootHash |-> NoRoot,
   attempt |-> 1, delay |-> 0, failures |-> 0, exhausted |-> 0,
   startLen |-> Len(records)]

\* one of the two builders runs over some record source with some page size
BuildInit ==
  /\ ServerInit("off")
  /\ files = [c \in ChainSet |-> NoFile]
  /\ db \in SeqsUpTo(SourceRecords, MaxBuildRecords)
  /\ \E size \in 1..MaxBatchSize :
       \/ \E prior \in {NoFile, PriorFile} :
            build = [StartOfBuild(size, db) EXCEPT !.written = [c \in ChainSet |-> prior]]
          /\ draft = NoDraft
       \/ build = NoBuild /\ draft = StartOfDraft(size, db)

BuildNext ==
  \/ BuildCount
  \/ BuildFetch
  \/ BuildFetchFails
  \/ BuildPersist
  \/ BuildWriteFails
  \/ BuildWritten
  \/ DraftStart
  \/ DraftLoopEnds
  \/ DraftFetch
  \/ DraftFetchFails
  \/ \E chain \in InsertChains, token \in Tokens : SourceGrows(chain, token)

BuildSpec == BuildInit /\ [][BuildNext]_vars

\* -------------------------------------------------------------- StartupSpec
\* the start of the process, of the multi-chain server or of the draft, up to
\* and after app.listen, without regeneration requests
StartupInit ==
  /\ db = <<>>
  /\ build = NoBuild
  /\ \/ /\ ServerInit("start")
        /\ files \in {[c \in ChainSet |-> NoFile], [c \in ChainSet |-> PriorFile]}
        /\ draft = NoDraft
     \/ /\ ServerInit("off")
        /\ files = [c \in ChainSet |-> NoFile]
        /\ \E size \in 1..MaxBatchSize : draft = StartOfDraft(size, db)

StartupNext ==
  \/ StartServer
  \/ WorkerNext
  \/ HandlerNext
  \/ DraftStart
  \/ DraftLoopEnds
  \/ DraftFetch
  \/ DraftFetchFails
  \/ \E chain \in InsertChains : InsertRecord(chain)

StartupSpec == StartupInit /\ [][StartupNext]_vars

\* What the runtime guarantees during startup: the event loop of the main
\* thread runs every handler that is due, and a worker thread that can go on
\* building does.  Nothing obliges a query or a file operation to fail, a
\* disconnect to reject or a record to be inserted.
StartupFairness ==
  /\ WF_vars(StartServer)
  /\ \A w \in Workers :
       /\ WF_vars(WorkerBuildChain(w))
       /\ WF_vars(HandleMessage(w))
       /\ WF_vars(LoadTree(w))
       /\ WF_vars(HandleError(w))
       /\ WF_vars(HandleExit(w))
  /\ WF_vars(DraftStart)
  /\ WF_vars(DraftLoopEnds)
  /\ WF_vars(DraftFetch)

StartupFairSpec == StartupSpec /\ StartupFairness

\* ---------------------------------------------------------------- ServeSpec
\* the start of the process over some record source, and the proof and root
\* queries it answers once it listens
ServeInit ==
  /\ db \in SeqsUpTo(SourceRecords, MaxServedRecords)
  /\ build = NoBuild
  /\ \/ /\ ServerInit("start")
        /\ files \in {[c \in ChainSet |-> NoFile], [c \in ChainSet |-> PriorFile]}
        /\ draft = NoDraft
     \/ /\ ServerInit("off")
        /\ files = [c \in ChainSet |-> NoFile]
        /\ \E size \in 1..MaxBatchSize : draft = StartOfDraft(size, db)

QueryNext ==
  \/ \E chain \in RequestChains, citizenId \in Citizens, token \in Tokens :
       GetProof(chain, citizenId, token)
  \/ \E chain \in RequestChains : GetRootHash(chain)
  \/ \E citizenId \in Citizens, token \in Tokens : DraftGetProof(citizenId, token)
  \/ DraftGetRootHash

ServeNext ==
  \/ StartServer
  \/ WorkerNext
  \/ HandlerNext
  \/ DraftStart
  \/ DraftLoopEnds
  \/ DraftFetch
  \/ DraftFetchFails
  \/ QueryNext

ServeSpec == ServeInit /\ [][ServeNext]_vars

\* ------------------------------------------------------------------ claims
\* a state in which the server handles requests
Serving == serverPc = "listening"

RegenerationWorkers == Workers \ {0}

\* the rebuild session of worker w: the worker builds, or its 'complete'
\* message is on its way, or its publication step (loadMerkleTrees) runs
CompletePosted(w) == \E k \in 1..Len(port[w]) : port[w][k].type = "complete"
SessionActive(w) == wPc[w] = "build" \/ CompletePosted(w) \/ loadKeys[w] # <<>>

\* the build of worker w ended before every chain was built and persisted
BuildFailed(w) == wPc[w] \in {"finally", "dead"} /\ wIdx[w] <= Len(CHAINS)

\* C1: whenever requests are served, the trees of all partitions are of the
\* same rebuild generation
AtomicPublication ==
  Serving => \A c1, c2 \in ChainSet : merkleTrees[c1].gen = merkleTrees[c2].gen

\* C2: at most one rebuild session (worker plus publication step) is active
\* at any time
SingleFlight ==
  Cardinality({w \in RegenerationWorkers : SessionActive(w)}) <= 1

\* C3: once every rebuild has finished (completed or failed) and all worker
\* messages and events have been handled, the rebuild-running flag is clear
\* (so the next POST /regenerate-trees is accepted)
NothingPending ==
  \A w \in RegenerationWorkers :
    ~SessionActive(w) /\ port[w] = <<>> /\ events[w] = <<>>
FinishedRebuildClearsFlag == (Serving /\ NothingPending) => ~isRegenerating

\* C4: no tree built by a failed rebuild is ever published
FailedRebuildPublishesNothing ==
  \A w \in RegenerationWorkers :
    BuildFailed(w) => \A c \in ChainSet : merkleTrees[c].gen # w

\* C5: whenever requests are served, the root served for a partition is the
\* root of the tree served for that partition
RootMatchesTree ==
  Serving =>
    \A c \in ChainSet :
      rootHashes[c] = getHexRoot(merkleTrees[c].leaves, merkleTrees[c].options)

ListenAfterLoad ==
  /\ Serving =>
       /\ wIdx[0] = Len(CHAINS) + 1
       /\ \A c \in ChainSet :
            /\ merkleTrees[c].loaded
            /\ merkleTrees[c].gen = 0
            /\ rootHashes[c] = wRoots[0][c]
            /\ rootHashes[c] # NoRoot
  /\ draft.pc = "listening" =>
       /\ draft.merkleTree.loaded
       /\ draft.rootHash = getHexRoot(draft.merkleTree.leaves, BuilderOptions)

\* C7 witness: the server listens with a tree built from a record
ListeningWithTrees ==
  Serving /\ \E c \in ChainSet : Len(merkleTrees[c].leaves) > 0

\* C9: a build fails exactly when a page fetch has failed `retries` times in
\* a row: not on the first failure, and not never
BoundedRetry ==
  /\ build.pc = "failed" => build.attempts = retries
  /\ (draft.pc # "off" /\ draft.exhausted > 0) => draft.pc = "failed"

\* C10: leaves of a finished build over the records `ids`
Occurrences(leaves, v) == Cardinality({k \in 1..Len(leaves) : leaves[k] = v})
HashOf(id) == hashToken(db[id].token, db[id].citizenId)
OnePerRecord(leaves, ids) ==
  /\ Len(leaves) = Cardinality(ids)
  /\ \A v \in {HashOf(id) : id \in ids} \cup {leaves[k] : k \in 1..Len(leaves)} :
       Occurrences(leaves, v) = Cardinality({id \in ids : HashOf(id) = v})

\* C10: when the records did not change during the build, the tree of every
\* partition has exactly one leaf per record of the partition, whatever the
\* page size
PaginationComplete ==
  /\ (build.pc = "done" /\ Len(db) = build.startLen) =>
       \A c \in ChainSet :
         OnePerRecord(build.written[c].leaves,
                      {id \in 1..Len(db) : db[id].chain = c})
  /\ (draft.pc = "listening" /\ Len(db) = draft.startLen) =>
       OnePerRecord(draft.merkleTree.leaves, 1..Len(db))

\* C10 witness: a finished build that needed several pages for one partition
SeveralPagesBuilt ==
  /\ build.pc = "done" /\ Len(db) = build.startLen
  /\ build.batchSize = 1
  /\ Len(build.written[CHAINS[1]].leaves) >= 2


\* C8: every status request gets a response: the listener of a status
\* request is never run or removed without the response being sent
StatusAlwaysAnswered == dropped = 0

\* C11: the artifact at a snapshot's location is never a truncated or partly
\* written one: the artifact of the previous generation stays until the new
\* one is fully written, also when the write fails midway
SnapshotReplacedAtomically ==
  build.pc # "off" =>
    \A c \in ChainSet : build.written[c].exists => build.written[c].complete

\* a 'complete' of a rebuild has been handled to its end
RebuildPublished == Serving /\ regenerationComplete

\* C12: after a successful rebuild a tree and a root hash are published for
\* each of the five supported chains ETH, ARB, BASE, POL and AVAX
AllDocumentedChainsPublished ==
  RebuildPublished =>
    \A k \in 1..Len(DocumentedChains) :
      /\ DocumentedChains[k] \in ChainSet
      /\ merkleTrees[DocumentedChains[k]].loaded
      /\ rootHashes[DocumentedChains[k]] # NoRoot

\* the last query was answered by the multi-chain server
Answered(route) == Serving /\ request.route = route /\ response.route = route

\* C13: a proof or root query for a partition name outside the configured
\* set fails with the unknown-partition error (status 400) and returns
\* neither a proof nor a root
UnknownPartitionRejected ==
  \A route \in {"proof", "rootHash"} :
    Answered(route) /\ request.chain \notin ChainSet =>
      /\ response.status = 400
      /\ DOMAIN response.body = {"error"}

\* C14: a successful proof query returns, with the proof, the root hash
\* published for the requested partition
ProofCarriesRoot ==
  Answered("proof") /\ response.status = 200 =>
    /\ "rootHash" \in DOMAIN response.body
    /\ response.body.rootHash = rootHashes[request.chain]

\* the page-level build is running or has ended
BuildStarted == build.pc # "off"

\* C15: within one rebuild the percent complete of a partition never goes
\* down: every report is a copy of the worker's progress at some moment, and
\* that progress never decreases for any partition
PercentNeverDecreases ==
  [][BuildStarted =>
       \A c \in ChainSet :
         build'.progress.chainProgress[c] >= build.progress.chainProgress[c]]_vars

\* C15 witness: two reports of one rebuild in which the percent of the first
\* partition went up
PercentWentUp ==
  /\ BuildStarted
  /\ \E j, k \in 1..Len(build.posted) :
       /\ j < k
       /\ build.posted[j].type = "progress" /\ build.posted[k].type = "progress"
       /\ build.posted[j].progress.chainProgress[CHAINS[1]] > 0
       /\ build.posted[j].progress.chainProgress[CHAINS[1]]
            < build.posted[k].progress.chainProgress[CHAINS[1]]

\* the artifact this build has fully written for partition c
Persisted(c) ==
  build.written[c].exists /\ build.written[c].complete /\ build.written[c].gen = 0

\* C16: the tree loadMerkleTrees reconstructs from a persisted artifact has
\* the root the builder reported; the stored options are the builder's
\* combination rule and do not make the loader hash the leaves again
SnapshotRoundTrip ==
  BuildStarted =>
    \A c \in ChainSet :
      Persisted(c) =>
        LET tree == LoadedTree(build.written[c])
        IN /\ getHexRoot(tree.leaves, tree.options) = build.rootHashes[c]
           /\ tree.options.sortPairs = BuilderOptions.sortPairs
           /\ ~tree.options.hashLeaves

\* C16 witness: a persisted partition whose first two leaves are not in
\* ascending order, so that the sorting of pairs decides the root
UnsortedLeavesPersisted ==
  /\ BuildStarted /\ Persisted(CHAINS[1])
  /\ Len(build.written[CHAINS[1]].leaves) >= 2
  /\ build.written[CHAINS[1]].leaves[1] > build.written[CHAINS[1]].leaves[2]

\* C17: the partitions are built and persisted in the order of CHAINS, one
\* at a time, and 'complete' is posted only after the last one, as the
\* last message
PartitionsInOrder ==
  BuildStarted =>
    LET n == Len(build.merkleTreePaths)
    IN /\ build.merkleTreePaths = SubSeq(CHAINS, 1, n)
       /\ build.progress.chainsCompleted = n
       /\ \A k \in 1..Len(CHAINS) : Persisted(CHAINS[k]) <=> k <= n
       /\ build.pc \in {"count", "fetch", "persist", "write"} => build.i = n + 1
       /\ \A j \in 1..Len(build.posted) :
            build.posted[j].type = "complete" =>
              /\ n = Len(CHAINS)
              /\ j = Len(build.posted)
              /\ build.posted[j].merkleTreePaths = CHAINS

\* C17 witness: the second partition is being built over records, the first
\* one is persisted and nothing after it
SecondPartitionBuilding ==
  /\ build.pc = "fetch" /\ build.i = 2 /\ Len(build.treeBuilder) > 0
  /\ Persisted(CHAINS[1]) /\ ~Persisted(CHAINS[2])

\* the identifiers grow along the sequence
StrictlyIncreasing(ids) == \A j, k \in 1..Len(ids) : j < k => ids[j] < ids[k]

\* the cursor is 0 before the first page and the greatest identifier fetched
\* afterwards
CursorOf(ids) == IF ids = <<>> THEN 0 ELSE ids[Len(ids)]

\* C18: the cursor starts at 0 and is the greatest identifier fetched so
\* far, every page lies above the cursor, and so no record gives more than
\* one leaf to a build, also when records are inserted while it runs
CursorAdvances ==
  /\ build.pc \in {"fetch", "persist", "write"} =>
       /\ StrictlyIncreasing(build.taken)
       /\ build.lastId = CursorOf(build.taken)
       /\ build.treeBuilder = LeavesOf(db, build.taken)
  /\ draft.pc \in {"loop", "listening"} =>
       /\ StrictlyIncreasing(draft.taken)
       /\ draft.lastId = CursorOf(draft.taken)
       /\ draft.treeBuilder = LeavesOf(db, draft.taken)

\* C18 witness: a record inserted while the build ran gave a leaf, after a
\* record that was there from the start
InsertedRecordTaken ==
  /\ build.pc = "fetch" /\ Len(build.taken) >= 2
  /\ build.taken[1] <= build.startLen
  /\ build.taken[Len(build.taken)] > build.startLen

\* the percentages of a progress report
Percentages(p) ==
  ({p.overall} \cup {p.chainProgress[c] : c \in ChainSet}) \ {NoPercent}

\* C19: every percentage of every progress report lies within 0..100, also
\* when records are inserted after the count of the partition was taken
PercentagesInRange ==
  BuildStarted =>
    \A j \in 1..Len(build.posted) :
      build.posted[j].type = "progress" =>
        \A v \in Percentages(build.posted[j].progress) : v >= 0 /\ v <= 100

\* C20: when a rebuild has completed, its progress is final: overall is 100
\* and chainsCompleted is the number of partitions
FinalProgress ==
  build.pc = "done" =>
    /\ build.progress.overall = 100
    /\ build.progress.chainsCompleted = Len(CHAINS)

\* C21: once the initial generation worker is launched, startup reaches a
\* decision: the server listens or the process exits; a build error caught
\* inside the worker does not leave startup waiting forever
StartupDecides ==
  (serverPc = "awaitInitial") ~> (serverPc \in {"listening", "exited"})

====
